---- MODULE Spec2Model ----
(***************************************************************************)
(* Model of backend/src/controllers/locations_controller.rs: the six       *)
(* actix-web handlers of the "locations" resource.  Each handler logs one  *)
(* line, awaits query(&db, Query::...) once, matches the QueryResult and   *)
(* returns Ok(HttpResponse) or Err(LocationsError).                        *)
(***************************************************************************)
EXTENDS Integers, Sequences, FiniteSets, TLC

VARIABLES pc, req, trace, outcome, present, result, stored

vars == <<pc, req, trace, outcome, present, result, stored>>

-----------------------------------------------------------------------------
(* Bounds and input domains *)

\* largest location id that appears in a request path
MaxId == 2

\* requests handled concurrently by the server's workers
Reqs == {"r1", "r2"}

\* opaque Location records (models::locations::Location)
LocationVals == {"locA", "locB"}

\* the {start} and {end} path strings of the range route
RangeStrs == {"2024-01-01", "not a date"}

-----------------------------------------------------------------------------
(* Path segment {location_id} and its deserialisation into usize *)

DigitChars == <<"0", "1", "2", "3", "4", "5", "6", "7", "8", "9">>

IsDigit(c) == \E d \in 1..10 : DigitChars[d] = c

DigitVal(c) == (CHOOSE d \in 1..10 : DigitChars[d] = c) - 1

RECURSIVE DigitsValue(_)
DigitsValue(s) ==
    IF s = <<>> THEN 0
    ELSE 10 * DigitsValue(SubSeq(s, 1, Len(s) - 1)) + DigitVal(s[Len(s)])

\* a signed parse, as an i64 field would be deserialised
ParseSigned(seg) ==
    LET signed == Len(seg) > 0 /\ seg[1] \in {"+", "-"}
        digits == IF signed THEN Tail(seg) ELSE seg
        mag    == DigitsValue(digits)
    IN  IF digits = <<>> \/ \E i \in 1..Len(digits) : ~IsDigit(digits[i])
        THEN [ok |-> FALSE, val |-> 0]
        ELSE [ok |-> TRUE, val |-> IF signed /\ seg[1] = "-" THEN 0 - mag ELSE mag]

\* usize::from_str on the path segment: an optional leading "+", then one or
\* more decimal digits; a leading "-" or any other character is an error
ParseUsize(seg) ==
    LET digits == IF Len(seg) > 0 /\ seg[1] = "+" THEN Tail(seg) ELSE seg
    IN  IF digits = <<>> \/ \E i \in 1..Len(digits) : ~IsDigit(digits[i])
        THEN [ok |-> FALSE, val |-> 0]
        ELSE [ok |-> TRUE, val |-> DigitsValue(digits)]

\* the decimal digits of n, as path characters
RECURSIVE SegOf(_)
SegOf(n) ==
    IF n < 10 THEN <<DigitChars[n + 1]>>
    ELSE Append(SegOf(n \div 10), DigitChars[(n % 10) + 1])

\* "{}" formatting of a usize
RECURSIVE FmtUsize(_)
FmtUsize(n) ==
    IF n < 0 THEN "-" \o FmtUsize(0 - n)
    ELSE IF n < 10 THEN DigitChars[n + 1]
    ELSE FmtUsize(n \div 10) \o DigitChars[(n % 10) + 1]

\* the {location_id} segments that requests carry
PathSegs ==
    { SegOf(n) : n \in 0..MaxId }
    \cup { <<"-">> \o SegOf(1), <<"+">> \o SegOf(1), <<"a">> }

-----------------------------------------------------------------------------
(* Query, QueryResult (crate::database::db) *)

IndexLocations == [tag |-> "IndexLocations"]
StoreLocation(loc) == [tag |-> "StoreLocation", loc |-> loc]
ShowLocation(id) == [tag |-> "ShowLocation", id |-> id]
ShowLocationTimestampsRange(id, start, end) ==
    [tag |-> "ShowLocationTimestampsRange", id |-> id, start |-> start, end |-> end]
ShowLocationTimestamps(id) == [tag |-> "ShowLocationTimestamps", id |-> id]
ShowLocationResidents(id) == [tag |-> "ShowLocationResidents", id |-> id]

NoPayload == [type |-> "none", items |-> <<>>]
Array(items) == [type |-> "array", items |-> items]
Object(name) == [type |-> "object", items |-> <<name>>]
Str(s) == [type |-> "string", items |-> <<s>>]

QueryErr == [ok |-> FALSE, variant |-> "Err", payload |-> NoPayload]
QueryOk(variant, payload) == [ok |-> TRUE, variant |-> variant, payload |-> payload]

\* every value of Result<QueryResult, Err> the collaborator can hand back
QueryResults ==
    {QueryErr, QueryOk("Success", NoPayload)}
    \cup { QueryOk("Locations", Array(l)) : l \in {<<>>, <<"locA", "locB">>} }
    \cup { QueryOk("Location", Object(l)) : l \in {"locA"} }
    \cup { QueryOk("TimeStamps", Array(t)) : t \in {<<>>, <<"ts1">>} }
    \cup { QueryOk("Residents", Array(p)) : p \in {<<>>, <<"res1">>} }

-----------------------------------------------------------------------------
(* HttpResponse, LocationsError *)

STATUS_OK == 200
STATUS_CREATED == 201
STATUS_INTERNAL_SERVER_ERROR == 500

\* HttpResponseBuilder::json: the value serialised as the JSON body
Json(v) == [fmt |-> "json", value |-> v]

\* HttpResponse::Ok().insert_header(ContentType::json()).json(v)
OkJson(v) ==
    [ok |-> TRUE,
     resp |-> [status |-> STATUS_OK, ctype |-> "application/json", body |-> Json(v)]]

\* Err(LocationsError(msg))
LocationsError(msg) == [ok |-> FALSE, err |-> msg]

\* impl Display for LocationsError
Display(msg) == "A validation error occured on the input: " \o msg

\* a ResponseError impl whose status_code is overridden to 400
error_response_bad_request(msg) ==
    [status |-> 400,
     ctype  |-> "text/plain; charset=utf-8",
     body   |-> [fmt |-> "text", value |-> Str(Display(msg))]]

\* impl ResponseError for LocationsError {}: the trait's default status_code
\* and error_response, whose body is the error's Display text
error_response(msg) ==
    [status |-> STATUS_INTERNAL_SERVER_ERROR,
     ctype  |-> "text/plain; charset=utf-8",
     body   |-> [fmt |-> "text", value |-> Str(Display(msg))]]

\* what the framework sends for a handler's Result<HttpResponse, LocationsError>
Render(res) == IF res.ok THEN res.resp ELSE error_response(res.err)

-----------------------------------------------------------------------------
(* What a handler emits before it suspends: log::info!, then query(..).await *)

Log(text, args) == [kind |-> "log", text |-> text, args |-> args]
Dispatch(q) == [kind |-> "query", q |-> q]

index_events ==
    <<Log("GET: locations controller", <<>>), Dispatch(IndexLocations)>>

\* store issuing its query a second time
store_events_twice(loc) ==
    <<Log("POST: locations controller", <<>>), Dispatch(StoreLocation(loc)),
      Dispatch(StoreLocation(loc))>>

store_events(loc) ==
    <<Log("POST: locations controller", <<>>), Dispatch(StoreLocation(loc))>>

show_events(id) ==
    <<Log("GET: locations controller with id: {}", <<FmtUsize(id)>>),
      Dispatch(ShowLocation(id))>>

\* the range query built with its bounds exchanged
show_location_timestamps_range_events_swapped(id, start, end) ==
    <<Log("GET: Locations controller timestamps with range for ID", <<>>),
      Dispatch(ShowLocationTimestampsRange(id, end, start))>>

show_location_timestamps_range_events(id, start, end) ==
    <<Log("GET: Locations controller timestamps with range for ID", <<>>),
      Dispatch(ShowLocationTimestampsRange(id, start, end))>>

show_location_timestamps_events(id) ==
    <<Log("GET: Locations controller timestamps for ID", <<>>),
      Dispatch(ShowLocationTimestamps(id))>>

show_location_residents_events(id) ==
    <<Log("GET: Locations controller residents for ID", <<>>),
      Dispatch(ShowLocationResidents(id))>>

-----------------------------------------------------------------------------
(* What a handler returns once query(..).await has produced qr *)

\* index with a message of its own for a failed query
index_split(qr) ==
    IF qr.ok
    THEN CASE qr.variant = "Locations" -> OkJson(qr.payload)
           [] OTHER -> LocationsError("Unable to retrieve locations")
    ELSE LocationsError("Database unavailable")

index(qr) ==
    IF qr.ok
    THEN CASE qr.variant = "Locations" -> OkJson(qr.payload)
           [] OTHER -> LocationsError("Unable to retrieve locations")
    ELSE LocationsError("Unable to retrieve locations")

\* store without .status(StatusCode::CREATED)
store_ok(qr) ==
    IF qr.ok /\ qr.variant = "Success"
    THEN OkJson(Str("Location added successfully"))
    ELSE LocationsError("Unable to add location")

store(qr) ==
    IF qr.ok /\ qr.variant = "Success"
    THEN [ok |-> TRUE,
          resp |-> [status |-> STATUS_CREATED, ctype |-> "application/json",
                    body |-> Json(Str("Location added successfully"))]]
    ELSE LocationsError("Unable to add location")

\* show answering a failed lookup with a not-found response
show_not_found(qr) ==
    IF qr.ok /\ qr.variant = "Location"
    THEN OkJson(qr.payload)
    ELSE [ok |-> TRUE,
          resp |-> [status |-> 404, ctype |-> "application/json",
                    body |-> Json(Str("Unable to retrieve location"))]]

show(qr) ==
    IF qr.ok /\ qr.variant = "Location"
    THEN OkJson(qr.payload)
    ELSE LocationsError("Unable to retrieve location")

show_location_timestamps_range(qr) ==
    IF qr.ok /\ qr.variant = "TimeStamps"
    THEN OkJson(qr.payload)
    ELSE LocationsError("Unable to retrieve timestamps")

\* show_location_timestamps treating an empty collection as a failure
show_location_timestamps_nonempty(qr) ==
    IF qr.ok /\ qr.variant = "TimeStamps" /\ qr.payload.items # <<>>
    THEN OkJson(qr.payload)
    ELSE LocationsError("Unable to retrieve timestamps")

show_location_timestamps(qr) ==
    IF qr.ok /\ qr.variant = "TimeStamps"
    THEN OkJson(qr.payload)
    ELSE LocationsError("Unable to retrieve timestamps")

\* show_location_residents failing whenever another request is in flight
show_location_residents_busy(qr) ==
    IF Cardinality({o \in Reqs : pc[o] = "awaiting"}) > 1
    THEN LocationsError("Unable to retrieve residents")
    ELSE IF qr.ok /\ qr.variant = "Residents"
    THEN OkJson(qr.payload)
    ELSE LocationsError("Unable to retrieve residents")

show_location_residents(qr) ==
    IF qr.ok /\ qr.variant = "Residents"
    THEN OkJson(qr.payload)
    ELSE LocationsError("Unable to retrieve residents")

\* the handler that the router bound to the request
Handle(op, qr) ==
    CASE op = "index" -> index(qr)
      [] op = "store" -> store(qr)
      [] op = "show" -> show(qr)
      [] op = "show_location_timestamps_range" -> show_location_timestamps_range(qr)
      [] op = "show_location_timestamps" -> show_location_timestamps(qr)
      [] op = "show_location_residents" -> show_location_residents(qr)

\* the handlers whose route has a {location_id} segment
IdOps == {"show", "show_location_timestamps_range",
          "show_location_timestamps", "show_location_residents"}

-----------------------------------------------------------------------------
(* The state machine: one request per slot, suspended only at the await *)

NoReq == [op |-> "none"]
NoOutcome == [ok |-> FALSE, variant |-> "none", payload |-> NoPayload]
NoResult == [ok |-> FALSE, err |-> "none"]

Init ==
    /\ pc = [r \in Reqs |-> "idle"]
    /\ req = [r \in Reqs |-> NoReq]
    /\ trace = [r \in Reqs |-> <<>>]
    /\ outcome = [r \in Reqs |-> NoOutcome]
    /\ present = [r \in Reqs |-> FALSE]
    /\ result = [r \in Reqs |-> NoResult]
    /\ stored = 0

\* the handler runs up to its await
Begin(r, rq, events) ==
    /\ pc' = [pc EXCEPT ![r] = "awaiting"]
    /\ req' = [req EXCEPT ![r] = rq]
    /\ trace' = [trace EXCEPT ![r] = events]
    /\ UNCHANGED <<outcome, present, result, stored>>

Index(r) ==
    /\ pc[r] = "idle"
    /\ Begin(r, [op |-> "index"], index_events)

Store(r) ==
    /\ pc[r] = "idle"
    /\ \E loc \in LocationVals :
        Begin(r, [op |-> "store", loc |-> loc], store_events(loc))

Show(r) ==
    /\ pc[r] = "idle"
    /\ \E seg \in PathSegs :
        /\ ParseUsize(seg).ok
        /\ Begin(r, [op |-> "show", seg |-> seg], show_events(ParseUsize(seg).val))

ShowLocationTimestampsRangeCall(r) ==
    /\ pc[r] = "idle"
    /\ \E seg \in PathSegs, start \in RangeStrs, end \in RangeStrs :
        /\ ParseUsize(seg).ok
        /\ Begin(r, [op |-> "show_location_timestamps_range", seg |-> seg,
                     start |-> start, end |-> end],
                 show_location_timestamps_range_events(ParseUsize(seg).val, start, end))

ShowLocationTimestampsCall(r) ==
    /\ pc[r] = "idle"
    /\ \E seg \in PathSegs :
        /\ ParseUsize(seg).ok
        /\ Begin(r, [op |-> "show_location_timestamps", seg |-> seg],
                 show_location_timestamps_events(ParseUsize(seg).val))

ShowLocationResidentsCall(r) ==
    /\ pc[r] = "idle"
    /\ \E seg \in PathSegs :
        /\ ParseUsize(seg).ok
        /\ Begin(r, [op |-> "show_location_residents", seg |-> seg],
                 show_location_residents_events(ParseUsize(seg).val))

\* web::Path<Id> / web::Path<(usize, String, String)> cannot be built from the
\* segment: the framework answers and the handler body never runs
PathReject(r) ==
    /\ pc[r] = "idle"
    /\ \E op \in IdOps, seg \in PathSegs :
        /\ ~ParseUsize(seg).ok
        /\ pc' = [pc EXCEPT ![r] = "rejected"]
        /\ req' = [req EXCEPT ![r] = [op |-> op, seg |-> seg]]
        /\ UNCHANGED <<trace, outcome, present, result, stored>>

\* the Query values among the events of request r
QueriesOf(r) ==
    SelectSeq(trace[r], LAMBDA e : e.kind = "query")

\* the location ids that have a record: StoreLocation numbers them 1, 2, ...
HasRecord(id) == id \in 1..stored

\* what query(&db, q) can return: an error or any QueryResult, save that a
\* Location is never returned for an id that has no record
QueryAnswers(q) ==
    { qr \in QueryResults :
        ~(q.tag = "ShowLocation" /\ ~HasRecord(q.id)
            /\ qr.ok /\ qr.variant = "Location") }

\* query(..).await completes with qr and the handler returns
Complete(r) ==
    /\ pc[r] = "awaiting"
    /\ LET q == QueriesOf(r)[1].q
       IN  \E qr \in QueryAnswers(q) :
            /\ pc' = [pc EXCEPT ![r] = "done"]
            /\ outcome' = [outcome EXCEPT ![r] = qr]
            /\ present' = [present EXCEPT ![r] =
                              req[r].op \in IdOps /\ HasRecord(q.id)]
            /\ result' = [result EXCEPT ![r] = Handle(req[r].op, qr)]
            /\ stored' = IF q.tag = "StoreLocation" /\ qr = QueryOk("Success", NoPayload)
                         THEN stored + 1 ELSE stored
            /\ UNCHANGED <<req, trace>>

Next ==
    \E r \in Reqs :
        \/ Index(r)
        \/ Store(r)
        \/ Show(r)
        \/ ShowLocationTimestampsRangeCall(r)
        \/ ShowLocationTimestampsCall(r)
        \/ ShowLocationResidentsCall(r)
        \/ PathReject(r)
        \/ Complete(r)

Spec == Init /\ [][Next]_vars

-----------------------------------------------------------------------------
(* Vocabulary of the properties *)

Started(r) == pc[r] \in {"awaiting", "done"}
Done(r) == pc[r] = "done"

ReadOps == {"index", "show", "show_location_timestamps_range",
            "show_location_timestamps", "show_location_residents"}

\* the QueryResult variant each operation expects
ExpectedVariant(op) ==
    CASE op = "index" -> "Locations"
      [] op = "store" -> "Success"
      [] op = "show" -> "Location"
      [] op = "show_location_timestamps_range" -> "TimeStamps"
      [] op = "show_location_timestamps" -> "TimeStamps"
      [] op = "show_location_residents" -> "Residents"

\* the fixed message of each operation
FixedMessage(op) ==
    CASE op = "index" -> "Unable to retrieve locations"
      [] op = "store" -> "Unable to add location"
      [] op = "show" -> "Unable to retrieve location"
      [] op = "show_location_timestamps_range" -> "Unable to retrieve timestamps"
      [] op = "show_location_timestamps" -> "Unable to retrieve timestamps"
      [] op = "show_location_residents" -> "Unable to retrieve residents"

\* the Query variant of each route
RouteQuery(op) ==
    CASE op = "index" -> "IndexLocations"
      [] op = "store" -> "StoreLocation"
      [] op = "show" -> "ShowLocation"
      [] op = "show_location_timestamps_range" -> "ShowLocationTimestampsRange"
      [] op = "show_location_timestamps" -> "ShowLocationTimestamps"
      [] op = "show_location_residents" -> "ShowLocationResidents"

Matches(r) == outcome[r].ok /\ outcome[r].variant = ExpectedVariant(req[r].op)

LogsOf(r) == SelectSeq(trace[r], LAMBDA e : e.kind = "log")

\* the digits of a segment, without an optional leading "+"
Unsigned(seg) == IF Len(seg) > 0 /\ seg[1] = "+" THEN Tail(seg) ELSE seg

-----------------------------------------------------------------------------
(* C1 *)

\* C1: whenever the query fails or returns Ok with a variant other than the
\* expected one, the handler returns LocationsError carrying the operation's
\* fixed message, the same value for both causes.
C1_ErrorCollapse ==
    \A r \in Reqs :
        (Done(r) /\ ~Matches(r)) =>
            /\ ~result[r].ok
            /\ result[r] = [ok |-> FALSE, err |-> FixedMessage(req[r].op)]

C1_Witness ==
    \E r1, r2 \in Reqs :
        /\ Done(r1) /\ Done(r2)
        /\ req[r1].op = req[r2].op
        /\ ~outcome[r1].ok
        /\ outcome[r2].ok /\ ~Matches(r2)
        /\ result[r1] = result[r2]
        /\ ~result[r1].ok

\* C2: a read handler succeeds exactly when the collaborator returns Ok with
\* the expected variant; the response is 200 and its JSON body is the payload
\* of that variant, unchanged.
C2_ReadSuccess ==
    \A r \in Reqs :
        (Done(r) /\ req[r].op \in ReadOps) =>
            /\ result[r].ok <=> Matches(r)
            /\ result[r].ok =>
                  /\ Render(result[r]).status = 200
                  /\ Render(result[r]).body.fmt = "json"
                  /\ Render(result[r]).body.value = outcome[r].payload

C2_Witness ==
    \E r \in Reqs :
        /\ Done(r) /\ req[r].op \in ReadOps
        /\ Matches(r)
        /\ outcome[r].payload.items = <<>>
        /\ result[r].ok
        /\ Render(result[r]).body.value.items = <<>>

\* C3: create answers 201 with a JSON string body exactly when the
\* collaborator returns Success; any error or other variant yields
\* LocationsError("Unable to add location"), and no other handler answers 201.
C3_Create ==
    \A r \in Reqs :
        Done(r) =>
            /\ req[r].op = "store" =>
                  IF outcome[r].ok /\ outcome[r].variant = "Success"
                  THEN /\ result[r].ok
                       /\ Render(result[r]).status = 201
                       /\ Render(result[r]).body.fmt = "json"
                       /\ Render(result[r]).body.value.type = "string"
                  ELSE result[r] = [ok |-> FALSE, err |-> "Unable to add location"]
            /\ Render(result[r]).status = 201 =>
                  /\ req[r].op = "store"
                  /\ outcome[r].ok /\ outcome[r].variant = "Success"

C3_Witness ==
    \E r \in Reqs :
        /\ Done(r) /\ req[r].op = "store"
        /\ outcome[r] = QueryOk("Success", NoPayload)
        /\ Render(result[r]).status = 201

\* C4 as stated: the rendered error body is the wrapped message itself, with
\* the default 500 status.
C4_BodyIsWrappedMessage ==
    \A r \in Reqs :
        (Done(r) /\ ~result[r].ok) =>
            /\ Render(result[r]).status = 500
            /\ Render(result[r]).body.value.items = <<result[r].err>>

\* C4 (amended): the rendered error body is the Display text of the error,
\* "A validation error occured on the input: " followed by the wrapped
\* message, and every operation and every cause gets the same 500 status.
C4_BodyIsDisplayText ==
    \A r \in Reqs :
        (Done(r) /\ ~result[r].ok) =>
            /\ Render(result[r]).status = 500
            /\ Render(result[r]).body.fmt = "text"
            /\ Render(result[r]).body.value.items =
                  <<"A validation error occured on the input: "
                        \o FixedMessage(req[r].op)>>

C4_Witness ==
    \E r1, r2 \in Reqs :
        /\ Done(r1) /\ Done(r2)
        /\ req[r1].op # req[r2].op
        /\ ~outcome[r1].ok
        /\ outcome[r2].ok /\ ~Matches(r2)
        /\ Render(result[r1]).status = 500
        /\ Render(result[r2]).status = 500
        /\ Render(result[r1]).body # Render(result[r2]).body

MissingLookup(r) ==
    /\ Done(r)
    /\ req[r].op \in {"show", "show_location_timestamps", "show_location_residents"}
    /\ ~present[r]

\* C5 as stated: a lookup of an id without a record returns the generic error
\* whatever the collaborator answers.
C5_MissingAlwaysError ==
    \A r \in Reqs :
        MissingLookup(r) =>
            result[r] = [ok |-> FALSE, err |-> FixedMessage(req[r].op)]

\* C5 (amended): a lookup of an id without a record never gets a not-found
\* status; it returns the generic error when the collaborator answers with an
\* error or another variant, and the 200 response when the collaborator
\* answers with the expected variant (such as an empty collection).
C5_MissingFollowsOutcome ==
    \A r \in Reqs :
        MissingLookup(r) =>
            /\ Render(result[r]).status \in {200, 500}
            /\ ~Matches(r) => result[r] = [ok |-> FALSE, err |-> FixedMessage(req[r].op)]
            /\ Matches(r) => (result[r].ok /\ Render(result[r]).status = 200)

C5_Witness ==
    \E r \in Reqs :
        /\ MissingLookup(r)
        /\ stored > 0
        /\ ~outcome[r].ok
        /\ Render(result[r]).status = 500

\* C6: a started request has logged exactly one line, before its query, and
\* on the routes with a {location_id} the line carries that identifier.
C6_OneLogLineWithId ==
    \A r \in Reqs :
        Started(r) =>
            /\ Len(LogsOf(r)) = 1
            /\ \A i, j \in 1..Len(trace[r]) :
                  (trace[r][i].kind = "log" /\ trace[r][j].kind = "query") => i < j
            /\ req[r].op \in IdOps =>
                  \E i \in 1..Len(LogsOf(r)[1].args) :
                      LogsOf(r)[1].args[i] = FmtUsize(QueriesOf(r)[1].q.id)

\* C7: between its start and its response a request has called query exactly
\* once, whatever the call returned; a request that has not started has
\* called it never, and a response exists only after the call returned.
C7_SingleQuery ==
    \A r \in Reqs :
        /\ Started(r) => Len(QueriesOf(r)) = 1
        /\ ~Started(r) => (Len(QueriesOf(r)) = 0 /\ result[r] = NoResult)
        /\ pc[r] = "awaiting" => (result[r] = NoResult /\ outcome[r] = NoOutcome)
        /\ Done(r) => (result[r] # NoResult /\ outcome[r] \in QueryResults)

C7_Witness ==
    \E r \in Reqs :
        /\ Done(r)
        /\ ~Matches(r)
        /\ ~result[r].ok
        /\ Len(QueriesOf(r)) = 1

\* C8: the dispatched Query is the variant of the request's route and carries
\* the request's own id, Location body, start and end, in that order; a
\* request is turned away only for a {location_id} that is no decimal number.
C8_Forwarded ==
    \A r \in Reqs :
        /\ Started(r) =>
              LET q == QueriesOf(r)[1].q
                  op == req[r].op
              IN  /\ q.tag = RouteQuery(op)
                  /\ op = "store" => q.loc = req[r].loc
                  /\ op \in IdOps => SegOf(q.id) = Unsigned(req[r].seg)
                  /\ op = "show_location_timestamps_range" =>
                        (q.start = req[r].start /\ q.end = req[r].end)
        /\ pc[r] = "rejected" =>
              \E i \in 1..Len(req[r].seg) : req[r].seg[i] \in {"-", "a"}

C8_Witness ==
    \E r \in Reqs :
        /\ Started(r)
        /\ req[r].op = "show_location_timestamps_range"
        /\ req[r].start = "not a date"
        /\ req[r].end = "2024-01-01"
        /\ QueriesOf(r)[1].q.start = "not a date"
        /\ QueriesOf(r)[1].q.end = "2024-01-01"

IdQueries(r) == SelectSeq(QueriesOf(r), LAMBDA e : e.q.tag \in
                    {"ShowLocation", "ShowLocationTimestampsRange",
                     "ShowLocationTimestamps", "ShowLocationResidents"})

\* C9 as stated: every dispatched location id is positive.
C9_IdPositive ==
    \A r \in Reqs :
        \A i \in 1..Len(IdQueries(r)) : IdQueries(r)[i].q.id > 0

\* C9 (amended): every dispatched location id is a non-negative integer (the
\* usize read from the path, 0 included); a path with a negative id
\* dispatches no query.
C9_IdNonNegative ==
    \A r \in Reqs :
        /\ \A i \in 1..Len(IdQueries(r)) : IdQueries(r)[i].q.id >= 0
        /\ (req[r].op \in IdOps /\ req[r].seg[1] = "-") => trace[r] = <<>>

C9_Witness ==
    \E r \in Reqs :
        /\ Started(r)
        /\ req[r].op \in IdOps
        /\ req[r].seg = <<"0">>
        /\ IdQueries(r)[1].q.id = 0

SameRequest(r1, r2) ==
    /\ Done(r1) /\ Done(r2)
    /\ req[r1] = req[r2]
    /\ outcome[r1] = outcome[r2]

Slot(r) == <<pc[r], req[r], trace[r], outcome[r], present[r], result[r]>>

\* C10: two requests with the same operation, parameters and collaborator
\* outcome get the same response however they were interleaved, and a step
\* of one request leaves every field of the other requests unchanged.
C10_Independent ==
    /\ [](\A r1, r2 \in Reqs : SameRequest(r1, r2) => result[r1] = result[r2])
    /\ [][\A r1, r2 \in Reqs :
             (r1 # r2 /\ Slot(r1)' # Slot(r1)) => Slot(r2)' = Slot(r2)]_vars

C10_Witness ==
    \E r1, r2 \in Reqs :
        /\ r1 # r2
        /\ SameRequest(r1, r2)
        /\ req[r1].op = "show_location_residents"
        /\ Matches(r1)
        /\ result[r1].ok /\ result[r2].ok

====
